---- MODULE Spec2Model ----
(***************************************************************************)
(* A model of bot.py, the TMDB -> X (Twitter) movie bot.                   *)
(*                                                                         *)
(* One run of the program is: main() looks the mode key up in MODES, the   *)
(* mode function queries the metadata service with tmdb_get, chooses one   *)
(* movie (pick_best_result or random.choice), renders a text and hands it  *)
(* to tweet(), which truncates it and calls create_tweet once.             *)
(*                                                                         *)
(* Texts are sequences of one-character strings, so that len(), slicing    *)
(* and rsplit are computed as Python computes them.  A dict is a function  *)
(* whose DOMAIN is the set of keys present: dict.get(k, d) is Get(r,k,d).  *)
(* An optional value is a sequence of length 0 (None) or 1.                *)
(* Ratings are counted in tenths (82 is 8.2).                              *)
(***************************************************************************)
EXTENDS Integers, Sequences, FiniteSets, TLC

VARIABLES
    \* ---- pick_best_result called on its own
    pk_pc,              \* "call" | "ret" | "idle"
    pk_input,           \* the list as it was passed in
    pk_results,         \* the caller's list object (sorted in place in tier 3)
    pk_min_vote_count,  \* the threshold argument
    pk_ret,             \* None or <<item>>
    \* ---- shorten called on its own, and then on its own result
    sh_pc,              \* "call" | "ret" | "again" | "idle"
    sh_text,            \* the text argument
    sh_max_len,         \* the budget argument
    sh_ret,             \* shorten(text, max_len)
    sh_again,           \* shorten(shorten(text, max_len), max_len)
    \* ---- tweet
    tw_pc,              \* "call" | "returned" | "raised" | "idle"
    tw_text,            \* the text argument
    tw_sent,            \* the texts passed to create_tweet, in order
    tw_outcome,         \* what create_tweet did: None or <<[kind, msg]>>
    \* ---- one run of the program
    pc,                 \* where the run is
    log,                \* the lines printed, in order, each by what it says
    env_ok,             \* whether every environment variable is set
    argv,               \* sys.argv[1:2]: None or <<mode key>>
    requests,           \* the tmdb_get calls made: [path, params], in order
    answers,            \* what each call returned, as far as the code reads it
    first,              \* the local `first`: None or <<response>>
    base_params,        \* the local `base_params`: None or <<dict>>
    gem_results,        \* the local `results` of mode 17
    random_page,        \* the local `random_page` (0 before it is drawn)
    movie               \* the local `movie`: None or <<item>>

pk_vars == <<pk_pc, pk_input, pk_results, pk_min_vote_count, pk_ret>>

sh_vars == <<sh_pc, sh_text, sh_max_len, sh_ret, sh_again>>

tw_vars == <<tw_pc, tw_text, tw_sent, tw_outcome>>

\* the locals of main() and of the mode function
run_locals == <<env_ok, argv, requests, answers, first, base_params, gem_results,
                random_page, movie>>

run_vars == <<pc, log, run_locals>>

vars == <<pk_vars, sh_vars, tw_vars, run_vars>>

----------------------------------------------------------------------------
(* Python values *)

None == <<>>
Some(v) == <<v>>

\* r.get(k, d)
Get(r, k, d) == IF k \in DOMAIN r THEN r[k] ELSE d

Max(a, b) == IF a >= b THEN a ELSE b
Min(a, b) == IF a <= b THEN a ELSE b

\* marks a key left out of a dict when the dict is built below
ABSENT == <<"<absent>">>
NoInt == 0 - 1

----------------------------------------------------------------------------
(* pick_best_result *)

\* truth value of r.get("poster_path"): a missing key, null and "" are all
\* falsy; null and "" are both the empty sequence here
HasPoster(r) == Get(r, "poster_path", <<>>) # <<>>

\* the sort key of line 59
SortKey(r) == <<Get(r, "vote_average", 0), Get(r, "popularity", 0)>>

\* tuple comparison ka > kb
KeyGreater(ka, kb) == \/ ka[1] > kb[1]
                      \/ ka[1] = kb[1] /\ ka[2] > kb[2]

\* list.sort(key=SortKey, reverse=True): a stable sort, and reverse=True keeps
\* elements with equal keys in their original order.  Insertion of x after
\* every element whose key is >= key(x).
RECURSIVE InsertDesc(_, _)
InsertDesc(x, s) ==
    IF s = <<>> THEN <<x>>
    ELSE IF KeyGreater(SortKey(x), SortKey(Head(s)))
         THEN <<x>> \o s
         ELSE <<Head(s)>> \o InsertDesc(x, Tail(s))

RECURSIVE SortDescFrom(_, _)
SortDescFrom(s, acc) ==
    IF s = <<>> THEN acc
    ELSE SortDescFrom(Tail(s), InsertDesc(Head(s), acc))

SortDesc(s) == SortDescFrom(s, <<>>)

\* lines 50-55: the list that is sorted
PickFiltered(results, min_vote_count) ==
    LET strict == SelectSeq(results, LAMBDA r :
                      HasPoster(r) /\ Get(r, "vote_count", 0) >= min_vote_count)
        posters == SelectSeq(results, LAMBDA r : HasPoster(r))
    IN  IF strict # <<>> THEN strict
        ELSE IF posters # <<>> THEN posters
        ELSE results

\* a fallback that drops the "has poster" tier
pick_no_poster_tier(results, min_vote_count) ==
    LET strict == SelectSeq(results, LAMBDA r :
                      HasPoster(r) /\ Get(r, "vote_count", 0) >= min_vote_count)
        filtered == IF strict # <<>> THEN strict ELSE results
    IN  IF filtered = <<>> THEN None ELSE Some(Head(SortDesc(filtered)))

\* a sort that leaves reverse=True out: the minimum comes first
pick_ascending(results, min_vote_count) ==
    LET sorted == SortDesc(PickFiltered(results, min_vote_count))
    IN  IF sorted = <<>> THEN None ELSE Some(sorted[Len(sorted)])

pick_best_result(results, min_vote_count) ==
    LET filtered == PickFiltered(results, min_vote_count)
    IN  IF filtered = <<>> THEN None ELSE Some(Head(SortDesc(filtered)))

\* `filtered` is the caller's own list exactly when both comprehensions are
\* empty (`... or results`); list.sort then reorders that list in place.
ResultsAfterPick(results, min_vote_count) ==
    IF SelectSeq(results, LAMBDA r : HasPoster(r)) = <<>>
    THEN SortDesc(results)
    ELSE results

----------------------------------------------------------------------------
(* Inputs of pick_best_result *)

MaxResults == 3

PosterX == <<"/", "x", ".", "j", "p", "g">>
PosterValues == {ABSENT, <<>>, PosterX}
VoteCountValues == {NoInt, 50}
VoteAverageValues == {NoInt, 0, 82}
PopularityValues == {NoInt, 5}

\* the dict with the keys whose value is not a "left out" mark
MkItem(id, p, vc, va, pop) ==
    LET full == [id |-> id, poster_path |-> p, vote_count |-> vc,
                 vote_average |-> va, popularity |-> pop]
        dom == {"id"}
                 \cup (IF p = ABSENT THEN {} ELSE {"poster_path"})
                 \cup (IF vc = NoInt THEN {} ELSE {"vote_count"})
                 \cup (IF va = NoInt THEN {} ELSE {"vote_average"})
                 \cup (IF pop = NoInt THEN {} ELSE {"popularity"})
    IN  [k \in dom |-> full[k]]

\* the field values of one item: <<poster_path, vote_count, vote_average, popularity>>
ItemShapes == PosterValues \X VoteCountValues \X VoteAverageValues \X PopularityValues

\* the list whose item at position i has id i and the field values shapes[i]
MkResults(shapes) ==
    [i \in 1..Len(shapes) |->
        MkItem(i, shapes[i][1], shapes[i][2], shapes[i][3], shapes[i][4])]

\* thresholds the modes pass: the smallest (line 190), the default (line 46)
\* and the largest (line 232)
MinVoteCounts == {1, 50, 100}

PickStart ==
    /\ pk_pc = "call"
    /\ \E n \in 0..MaxResults : \E shapes \in [1..n -> ItemShapes] :
          /\ pk_input = MkResults(shapes)
          /\ pk_results = MkResults(shapes)
    /\ pk_min_vote_count \in MinVoteCounts
    /\ pk_ret = None

PickIdle ==
    /\ pk_pc = "idle"
    /\ pk_input = <<>>
    /\ pk_results = <<>>
    /\ pk_min_vote_count = 0
    /\ pk_ret = None

CallPickBestResult ==
    /\ pk_pc = "call"
    /\ pk_ret' = pick_best_result(pk_results, pk_min_vote_count)
    /\ pk_results' = ResultsAfterPick(pk_results, pk_min_vote_count)
    /\ pk_pc' = "ret"
    /\ UNCHANGED <<pk_input, pk_min_vote_count>>
    /\ UNCHANGED <<sh_vars, tw_vars, run_vars>>

----------------------------------------------------------------------------
(* shorten *)

\* the one-character ellipsis of line 68 (U+2026)
Ellipsis == "<U+2026>"

SetMax(S) == CHOOSE x \in S : \A y \in S : y <= x

\* text[:n]
Prefix(text, n) == SubSeq(text, 1, Min(Max(n, 0), Len(text)))

\* s.rsplit(" ", 1)[0]: s up to its last space, or s itself when it has none
RSplitHead(s) ==
    LET spaces == {i \in 1..Len(s) : s[i] = " "}
    IN  IF spaces = {} THEN s ELSE SubSeq(s, 1, SetMax(spaces) - 1)

\* s.split(" ", 1)[0]: s up to its first space
SplitHead(s) ==
    LET spaces == {i \in 1..Len(s) : s[i] = " "}
    IN  IF spaces = {} THEN s
        ELSE SubSeq(s, 1, (CHOOSE x \in spaces : \A y \in spaces : x <= y) - 1)

\* a slice one character too long: text[:max_len]
shorten_off_by_one(text, max_len) ==
    IF text = <<>> THEN <<>>
    ELSE IF Len(text) <= max_len THEN text
    ELSE RSplitHead(Prefix(text, max_len)) \o <<Ellipsis>>

\* split in place of rsplit
shorten_first_space(text, max_len) ==
    IF text = <<>> THEN <<>>
    ELSE IF Len(text) <= max_len THEN text
    ELSE SplitHead(Prefix(text, max_len - 1)) \o <<Ellipsis>>

\* `not text` holds for None and for ""; both are the empty sequence here
shorten(text, max_len) ==
    IF text = <<>> THEN <<>>
    ELSE IF Len(text) <= max_len THEN text
    ELSE RSplitHead(Prefix(text, max_len - 1)) \o <<Ellipsis>>

----------------------------------------------------------------------------
(* Inputs of shorten *)

\* the budgets the modes pass (lines 130, 279) and the default (line 63)
Budgets == {150, 160, 180}

\* text lengths run from max_len - LenSlack to max_len + LenSlack
LenSlack == 2

\* the positions of a text whose character varies; the others hold letters
VaryingPositions(max_len) ==
    {1, max_len \div 2, max_len - 2, max_len - 1, max_len, max_len + 1}

Letter(i) == IF i % 2 = 0 THEN "a" ELSE "b"

\* the text of length n with the characters `at` at the varying positions
MkText(n, at) ==
    [i \in 1..n |-> IF i \in DOMAIN at THEN at[i] ELSE Letter(i)]

ShortenStart ==
    /\ sh_pc = "call"
    /\ sh_max_len \in Budgets
    /\ \E n \in {0, 1} \cup ((sh_max_len - LenSlack)..(sh_max_len + LenSlack)) :
       \E at \in [VaryingPositions(sh_max_len) -> {"x", " ", "\n"}] :
          sh_text = MkText(n, at)
    /\ sh_ret = <<>>
    /\ sh_again = <<>>

ShortenIdle ==
    /\ sh_pc = "idle"
    /\ sh_text = <<>>
    /\ sh_max_len = 0
    /\ sh_ret = <<>>
    /\ sh_again = <<>>

CallShorten ==
    /\ sh_pc = "call"
    /\ sh_ret' = shorten(sh_text, sh_max_len)
    /\ sh_pc' = "ret"
    /\ UNCHANGED <<sh_text, sh_max_len, sh_again>>
    /\ UNCHANGED <<pk_vars, tw_vars, run_vars>>

CallShortenAgain ==
    /\ sh_pc = "ret"
    /\ sh_again' = shorten(sh_ret, sh_max_len)
    /\ sh_pc' = "again"
    /\ UNCHANGED <<sh_text, sh_max_len, sh_ret>>
    /\ UNCHANGED <<pk_vars, tw_vars, run_vars>>

----------------------------------------------------------------------------
(* tweet *)

\* line 84
TWEET_MAX_LEN == 270

Dots == <<".", ".", ".">>

\* a cut that forgets to leave room for the dots: text[:max_len] + "..."
TruncateTweet_no_room(text) ==
    IF Len(text) > TWEET_MAX_LEN
    THEN Prefix(text, TWEET_MAX_LEN) \o Dots
    ELSE text

\* lines 87-88
TruncateTweet(text) ==
    IF Len(text) > TWEET_MAX_LEN
    THEN Prefix(text, TWEET_MAX_LEN - 3) \o Dots
    ELSE text

\* str.lower(), on the letters the messages below use
LowerChar(c) ==
    CASE c = "D" -> "d" [] c = "S" -> "s" [] OTHER -> c

Lower(s) == [i \in 1..Len(s) |-> LowerChar(s[i])]

\* pat in s
Contains(s, pat) ==
    \E i \in 0..(Len(s) - Len(pat)) : SubSeq(s, i + 1, i + Len(pat)) = pat

DUPLICATE == <<"d", "u", "p", "l", "i", "c", "a", "t", "e">>

\* what create_tweet can do: return, raise tweepy.errors.Forbidden with a
\* message, or raise anything else
ForbiddenMessages ==
    { <<"d", "u", "p", "l", "i", "c", "a", "t", "e", " ", "c", "o", "n", "t", "e", "n", "t">>,
      <<"S", "t", "a", "t", "u", "s", " ", "i", "s", " ", "a", " ",
        "D", "u", "p", "l", "i", "c", "a", "t", "e", ".">>,
      <<"d", "u", "p", "l", "i", "c", "a", "t">>,
      <<"n", "o", "t", " ", "p", "e", "r", "m", "i", "t", "t", "e", "d">> }

CreateTweetOutcomes ==
    {[kind |-> "ok", msg |-> <<>>]}
      \cup {[kind |-> "Forbidden", msg |-> m] : m \in ForbiddenMessages}
      \cup {[kind |-> "TooManyRequests", msg |-> <<>>]}

\* a handler that re-raises a Forbidden that is not a duplicate
HandleCreateTweet_reraise(out) ==
    IF out.kind = "ok"
    THEN [raised |-> FALSE, printed |-> <<"Tweet gonderildi">>]
    ELSE IF out.kind = "Forbidden"
    THEN IF Contains(Lower(out.msg), DUPLICATE)
         THEN [raised |-> FALSE, printed |-> <<"duplicate, skipped">>]
         ELSE [raised |-> TRUE, printed |-> <<>>]
    ELSE [raised |-> TRUE, printed |-> <<>>]

\* lines 97-106: whether the exception leaves tweet, and what is printed
HandleCreateTweet(out) ==
    IF out.kind = "ok"
    THEN [raised |-> FALSE, printed |-> <<"Tweet gonderildi">>]
    ELSE IF out.kind = "Forbidden"
    THEN IF Contains(Lower(out.msg), DUPLICATE)
         THEN [raised |-> FALSE, printed |-> <<"duplicate, skipped">>]
         ELSE [raised |-> FALSE, printed |-> <<"403 Forbidden, skipped", "detail">>]
    ELSE [raised |-> TRUE, printed |-> <<>>]

\* tweet(text), lines 77-106.  When a mode function called it (pc = "tweet")
\* the call is that function's last statement: the run ends when tweet
\* returns and dies when tweet raises.
tweet ==
    /\ tw_pc = "call"
    /\ \E out \in CreateTweetOutcomes :
        LET h == HandleCreateTweet(out) IN
        /\ tw_sent' = Append(tw_sent, TruncateTweet(tw_text))
        /\ tw_outcome' = Some(out)
        /\ tw_pc' = IF h.raised THEN "raised" ELSE "returned"
        /\ log' = log \o h.printed
        /\ pc' = IF pc = "tweet"
                 THEN (IF h.raised THEN "crashed" ELSE "done")
                 ELSE pc
    /\ UNCHANGED <<tw_text, run_locals>>
    /\ UNCHANGED <<pk_vars, sh_vars>>

TweetIdle ==
    /\ tw_pc = "idle"
    /\ tw_text = <<>>
    /\ tw_sent = <<>>
    /\ tw_outcome = None

RunIdle ==
    /\ pc = "idle"
    /\ log = <<>>
    /\ env_ok = TRUE
    /\ argv = None
    /\ requests = <<>>
    /\ answers = <<>>
    /\ first = None
    /\ base_params = None
    /\ gem_results = <<>>
    /\ random_page = 0
    /\ movie = None

----------------------------------------------------------------------------
(* Inputs of tweet *)

\* text lengths run from TWEET_MAX_LEN - TweetSlack to TWEET_MAX_LEN + TweetSlack
TweetSlack == 4

TweetVaryingPositions ==
    {TWEET_MAX_LEN - 3, TWEET_MAX_LEN - 2, TWEET_MAX_LEN, TWEET_MAX_LEN + 1}

TweetStart ==
    /\ tw_pc = "call"
    /\ \E n \in {0, 1, 2 * TWEET_MAX_LEN}
                 \cup ((TWEET_MAX_LEN - TweetSlack)..(TWEET_MAX_LEN + TweetSlack)) :
       \E at \in [TweetVaryingPositions -> {"x", "."}] :
          tw_text = MkText(n, at)
    /\ tw_sent = <<>>
    /\ tw_outcome = None

----------------------------------------------------------------------------
(* The metadata service *)

\* a dict literal entry
KV(k, v) == k :> v

\* tmdb_get(path, params), lines 36-41: the request that goes out.  The key is
\* written into the caller's dict.
WithApiKey(params) == KV("api_key", "TMDB_API_KEY") @@ params

Request(path, params) == [path |-> path, params |-> WithApiKey(params)]

\* dict(base_params) with params["page"] = random_page
WithPage(params, page) == KV("page", page) @@ params

\* TMDB_DEFAULT_REGION, line 11, when the environment does not set it
REGION == "TR"

\* the params dict of each query; dates are date.today() and offsets of it
PopularTR == KV("language", "tr-TR") @@ KV("region", REGION) @@ KV("page", 1)
PopularWorld == KV("language", "tr-TR") @@ KV("page", 1)
NewRelease ==
    KV("language", "tr-TR") @@ KV("region", REGION)
      @@ KV("sort_by", "popularity.desc")
      @@ KV("primary_release_date.gte", "today-7d")
      @@ KV("primary_release_date.lte", "today") @@ KV("page", 1)
TrendingTR == KV("language", "tr-TR")
WeekTopRated ==
    KV("language", "en-US") @@ KV("sort_by", "vote_average.desc")
      @@ KV("vote_count.gte", 100)
      @@ KV("primary_release_date.gte", "today-7d")
      @@ KV("primary_release_date.lte", "today") @@ KV("page", 1)
RandomQuality ==
    KV("language", "tr-TR") @@ KV("sort_by", "popularity.desc")
      @@ KV("vote_average.gte", 75) @@ KV("vote_count.gte", 300)
NetflixTR ==
    KV("language", "tr-TR") @@ KV("sort_by", "popularity.desc")
      @@ KV("with_watch_providers", 8) @@ KV("watch_region", REGION)
      @@ KV("page", 1)
BoxOffice ==
    KV("language", "en-US") @@ KV("sort_by", "popularity.desc")
      @@ KV("primary_release_date.gte", "today-14d")
      @@ KV("primary_release_date.lte", "today")
      @@ KV("vote_count.gte", 100) @@ KV("page", 1)
TrendingEN == KV("language", "en-US")
PopularEN == KV("language", "en-US") @@ KV("page", 1)
TurkishMovies ==
    KV("language", "tr-TR") @@ KV("with_original_language", "tr")
      @@ KV("sort_by", "popularity.desc") @@ KV("page", 1)
Classic ==
    KV("language", "en-US") @@ KV("sort_by", "popularity.desc")
      @@ KV("primary_release_date.lte", "2005-12-31")
      @@ KV("vote_count.gte", 500)
GemStrict ==
    KV("language", "tr-TR") @@ KV("sort_by", "popularity.desc")
      @@ KV("vote_average.gte", 70) @@ KV("vote_count.gte", 100)
      @@ KV("vote_count.lte", 2000)
GemRelaxed ==
    KV("language", "tr-TR") @@ KV("sort_by", "popularity.desc")
      @@ KV("vote_average.gte", 70) @@ KV("vote_count.gte", 50)

\* the movies a response can hold
Letters(n) == [i \in 1..n |-> Letter(i)]
Words(n) == [i \in 1..n |-> IF i % 8 = 0 THEN " " ELSE Letter(i)]

MovieA ==
    [id |-> 1, title |-> <<"T", "e", "s", "t", " ", "M", "o", "v", "i", "e">>,
     release_date |-> <<"2", "0", "2", "4", "-", "0", "3", "-", "1", "5">>,
     vote_average |-> 82, vote_count |-> 500, popularity |-> 9, poster_path |-> PosterX,
     overview |-> Words(20)]

MovieB ==
    [id |-> 27205, title |-> Letters(120), vote_count |-> 60, popularity |-> 3,
     poster_path |-> <<>>, overview |-> Words(200)]

RunMovies == {MovieA, MovieB}

\* a page holds at most MaxPageItems movies
MaxPageItems == 2

RunResultLists == UNION {[1..n -> RunMovies] : n \in 0..MaxPageItems}

\* total_pages values: negative, zero, small, and over the page cap
TotalPagesValues(cap) == {0 - 1, 0, 1, 2, cap + 1}

\* the JSON bodies tmdb_get can return to a mode whose page cap is `cap`;
\* either key may be missing
ResponsesFor(cap) ==
    {[results |-> rs, total_pages |-> tp] :
        rs \in RunResultLists, tp \in TotalPagesValues(cap)}
      \cup {[results |-> rs] : rs \in RunResultLists}
      \cup {<<>>}

\* the same for a mode that reads no total_pages
Responses == ResponsesFor(1)

\* the part of a response that the code reads
Read(resp, keys) == [k \in (DOMAIN resp) \cap keys |-> resp[k]]

----------------------------------------------------------------------------
(* Rendering *)

\* the literal text of an f-string, by its length: n characters that are
\* neither spaces nor dots
Filler(n) == [i \in 1..n |-> "#"]

Digit(d) ==
    CASE d = 0 -> "0" [] d = 1 -> "1" [] d = 2 -> "2" [] d = 3 -> "3"
      [] d = 4 -> "4" [] d = 5 -> "5" [] d = 6 -> "6" [] d = 7 -> "7"
      [] d = 8 -> "8" [] d = 9 -> "9"

\* str(n) for n >= 0
RECURSIVE Str(_)
Str(n) == IF n < 10 THEN <<Digit(n)>> ELSE Str(n \div 10) \o <<Digit(n % 10)>>

\* f"{vote:.1f}" of a rating counted in tenths
FormatVote(v) == Str(v \div 10) \o <<".">> \o <<Digit(v % 10)>>

\* the number of characters of each literal piece of the mode's f-string:
\* before the title, before the year, before the rating, before the overview,
\* before the url, after the url.  Mode 14 has no rating: its pieces stand
\* before the title, the year, the poster url, the url, and after the url.
Template(key) ==
    CASE key = "1" -> <<36, 2, 6, 2, 14, 20>>
      [] key = "2" -> <<33, 2, 6, 2, 12, 20>>
      [] key = "3" -> <<39, 2, 6, 2, 12, 29>>
      [] key = "4" -> <<40, 2, 6, 2, 9, 19>>
      [] key = "5" -> <<35, 2, 6, 2, 16, 27>>
      [] key = "8" -> <<41, 2, 6, 2, 16, 21>>
      [] key = "10" -> <<48, 2, 6, 2, 14, 23>>
      [] key = "13" -> <<33, 2, 6, 2, 8, 22>>
      [] key = "14" -> <<25, 2, 11, 8, 20>>
      [] key = "15" -> <<32, 2, 6, 2, 9, 26>>
      [] key = "16" -> <<24, 2, 6, 2, 20, 20>>
      [] key = "17" -> <<32, 2, 6, 2, 10, 30>>

\* the budget each mode passes to shorten
OverviewBudget(key) == IF key \in {"5", "16", "17"} THEN 160 ELSE 150

\* the url of the movie's page: mode 1 uses the short host
MovieUrl(key, m) == Filler(IF key = "1" THEN 23 ELSE 33) \o Str(m.id)

\* build_poster_url, lines 71-74, for a poster path that is not empty
build_poster_url(poster_path) == Filler(31) \o poster_path

\* the text the mode function hands to tweet
Render(key, m) ==
    LET t == Template(key)
        date == Get(m, "release_date", <<>>)
        year == IF key = "3" THEN date ELSE Prefix(date, 4)
        overview == shorten(Get(m, "overview", <<>>), OverviewBudget(key))
    IN  IF key = "14"
        THEN Filler(t[1]) \o m.title \o Filler(t[2]) \o year \o Filler(t[3])
               \o build_poster_url(m.poster_path) \o Filler(t[4])
               \o MovieUrl(key, m) \o Filler(t[5])
        ELSE Filler(t[1]) \o m.title \o Filler(t[2]) \o year \o Filler(t[3])
               \o FormatVote(Get(m, "vote_average", 0)) \o Filler(t[4])
               \o overview \o Filler(t[5]) \o MovieUrl(key, m) \o Filler(t[6])

----------------------------------------------------------------------------
(* main and the mode functions *)

\* the keys of MODES, lines 544-557
ModeKeys == {"1", "2", "3", "4", "5", "8", "10", "13", "14", "15", "16", "17"}

\* `if not movie`: None and the empty dict are falsy
Truthy(m) == m # None /\ DOMAIN m[1] # {}

\* a or b, for lists
OrElse(a, b) == IF a # <<>> THEN a ELSE b

\* the mode function calls tweet(text) as its last statement
CallTweet(key, m) ==
    /\ movie' = m
    /\ tw_text' = Render(key, m[1])
    /\ tw_pc' = "call"
    /\ pc' = "tweet"
    /\ UNCHANGED <<log, tw_sent, tw_outcome>>

\* a mode function that posts its "not found" line
ReturnNoMovie_posts_line(m, line) ==
    /\ movie' = m
    /\ log' = Append(log, line)
    /\ tw_text' = <<>>
    /\ tw_pc' = "call"
    /\ pc' = "tweet"
    /\ UNCHANGED <<tw_sent, tw_outcome>>

\* the mode function prints a line and returns without a movie
ReturnNoMovie(m, line) ==
    /\ movie' = m
    /\ log' = Append(log, line)
    /\ pc' = "done"
    /\ UNCHANGED tw_vars

\* tmdb_get raises (raise_for_status, a timeout): nothing catches it
TmdbRaises(path, params) ==
    /\ requests' = Append(requests, Request(path, params))
    /\ answers' = Append(answers, [error |-> "HTTPError"])
    /\ pc' = "crashed"
    /\ UNCHANGED <<log, env_ok, argv, first, base_params, gem_results,
                   random_page, movie>>
    /\ UNCHANGED tw_vars

\* main(), lines 560-571, up to the call of the mode function
main ==
    /\ pc = "main"
    /\ IF ~env_ok
       THEN pc' = "crashed" /\ log' = Append(log, "RuntimeError")
       ELSE IF argv = None
       THEN pc' = "exit" /\ log' = Append(log, "usage")
       ELSE IF argv[1] \notin ModeKeys
       THEN pc' = "exit" /\ log' = Append(log, "unknown MODE")
       ELSE pc' = "mode" /\ log' = log
    /\ UNCHANGED run_locals
    /\ UNCHANGED <<pk_vars, sh_vars, tw_vars>>

\* the modes that make one query and take pick_best_result of its results
PickBestMode(key, path, params, min_vote_count) ==
    /\ pc = "mode"
    /\ argv = Some(key)
    /\ \/ TmdbRaises(path, params)
       \/ \E data \in Responses :
            LET m == pick_best_result(Get(data, "results", <<>>), min_vote_count)
            IN  /\ requests' = Append(requests, Request(path, params))
                /\ answers' = Append(answers, Read(data, {"results"}))
                /\ IF Truthy(m)
                   THEN CallTweet(key, m)
                   ELSE ReturnNoMovie(m, "not found")
                /\ UNCHANGED <<env_ok, argv, first, base_params, gem_results,
                               random_page>>
    /\ UNCHANGED <<pk_vars, sh_vars>>

mode_1_turkey_popular_today == PickBestMode("1", "/movie/popular", PopularTR, 50)
mode_2_world_popular_today == PickBestMode("2", "/movie/popular", PopularWorld, 50)
mode_4_week_top_rated == PickBestMode("4", "/discover/movie", WeekTopRated, 100)
mode_8_netflix_tr_popular == PickBestMode("8", "/discover/movie", NetflixTR, 20)
mode_10_box_office_like == PickBestMode("10", "/discover/movie", BoxOffice, 100)
mode_13_trending_riser == PickBestMode("13", "/trending/movie/day", TrendingEN, 50)
mode_15_turkish_movies_popular ==
    PickBestMode("15", "/discover/movie", TurkishMovies, 20)

\* a mode 3 that goes on to the trending query whatever the first one found
mode_3_always_trending ==
    /\ pc = "mode"
    /\ argv = Some("3")
    /\ \/ TmdbRaises("/discover/movie", NewRelease)
       \/ \E data \in Responses :
            LET m == pick_best_result(Get(data, "results", <<>>), 1)
            IN  /\ requests' = Append(requests, Request("/discover/movie", NewRelease))
                /\ answers' = Append(answers, Read(data, {"results"}))
                /\ movie' = m
                /\ log' = Append(log, "falling back to trending")
                /\ pc' = "m3_trending"
                /\ UNCHANGED tw_vars
                /\ UNCHANGED <<env_ok, argv, first, base_params, gem_results,
                               random_page>>
    /\ UNCHANGED <<pk_vars, sh_vars>>

\* mode 3 up to its first query's answer, lines 173-194
mode_3_new_release_today ==
    /\ pc = "mode"
    /\ argv = Some("3")
    /\ \/ TmdbRaises("/discover/movie", NewRelease)
       \/ \E data \in Responses :
            LET m == pick_best_result(Get(data, "results", <<>>), 1)
            IN  /\ requests' = Append(requests, Request("/discover/movie", NewRelease))
                /\ answers' = Append(answers, Read(data, {"results"}))
                /\ IF Truthy(m)
                   THEN CallTweet("3", m)
                   ELSE /\ movie' = m
                        /\ log' = Append(log, "falling back to trending")
                        /\ pc' = "m3_trending"
                        /\ UNCHANGED tw_vars
                /\ UNCHANGED <<env_ok, argv, first, base_params, gem_results,
                               random_page>>
    /\ UNCHANGED <<pk_vars, sh_vars>>

\* mode 3 from its fallback query on, lines 195-214
mode_3_trending ==
    /\ pc = "m3_trending"
    /\ \/ TmdbRaises("/trending/movie/day", TrendingTR)
       \/ \E trend_data \in Responses :
            LET m == pick_best_result(Get(trend_data, "results", <<>>), 1)
            IN  /\ requests' = Append(requests,
                                      Request("/trending/movie/day", TrendingTR))
                /\ answers' = Append(answers, Read(trend_data, {"results"}))
                /\ IF Truthy(m)
                   THEN CallTweet("3", m)
                   ELSE ReturnNoMovie(m, "not found in trending either")
                /\ UNCHANGED <<env_ok, argv, first, base_params, gem_results,
                               random_page>>
    /\ UNCHANGED <<pk_vars, sh_vars>>

\* mode 14, lines 390-412
mode_14_best_poster ==
    /\ pc = "mode"
    /\ argv = Some("14")
    /\ \/ TmdbRaises("/movie/popular", PopularEN)
       \/ \E data \in Responses :
            LET candidates == SelectSeq(Get(data, "results", <<>>), HasPoster)
            IN  /\ requests' = Append(requests, Request("/movie/popular", PopularEN))
                /\ answers' = Append(answers, Read(data, {"results"}))
                /\ IF candidates = <<>>
                   THEN ReturnNoMovie(None, "no film with a poster")
                   ELSE \E i \in 1..Len(candidates) :
                            CallTweet("14", Some(candidates[i]))
                /\ UNCHANGED <<env_ok, argv, first, base_params, gem_results,
                               random_page>>
    /\ UNCHANGED <<pk_vars, sh_vars>>

\* total_pages = min(first.get("total_pages", 1), cap) with the cap left out
PageChoices_no_cap(resp, cap) == 1..Max(Get(resp, "total_pages", 1), 1)

\* total_pages = min(first.get("total_pages", 1), cap);
\* random.randint(1, max(total_pages, 1)) returns any page of this set
PageChoices(resp, cap) == 1..Max(Min(Get(resp, "total_pages", 1), cap), 1)

\* modes 5 and 16 up to the drawing of the page, lines 257-265 and 451-459
RandomQualityFirst(key, params, cap) ==
    /\ pc = "mode"
    /\ argv = Some(key)
    /\ \/ TmdbRaises("/discover/movie", params)
       \/ \E resp \in ResponsesFor(cap) : \E page \in PageChoices(resp, cap) :
            /\ requests' = Append(requests, Request("/discover/movie", params))
            /\ answers' = Append(answers, resp)
            /\ first' = Some(resp)
            /\ base_params' = Some(WithApiKey(params))
            /\ random_page' = page
            /\ pc' = "requery"
            /\ UNCHANGED <<log, env_ok, argv, gem_results, movie>>
            /\ UNCHANGED tw_vars
    /\ UNCHANGED <<pk_vars, sh_vars>>

\* modes 5 and 16 from the second query on, lines 266-289 and 460-483
RandomQualityRequery(key) ==
    /\ pc = "requery"
    /\ argv = Some(key)
    /\ LET params == WithPage(base_params[1], random_page) IN
       \/ TmdbRaises("/discover/movie", params)
       \/ \E data \in Responses :
            LET found == OrElse(Get(data, "results", <<>>),
                                Get(first[1], "results", <<>>))
            IN  /\ requests' = Append(requests, Request("/discover/movie", params))
                /\ answers' = Append(answers, Read(data, {"results"}))
                /\ IF found = <<>>
                   THEN ReturnNoMovie(None, "not found")
                   ELSE \E i \in 1..Len(found) : CallTweet(key, Some(found[i]))
                /\ UNCHANGED <<env_ok, argv, first, base_params, gem_results,
                               random_page>>
    /\ UNCHANGED <<pk_vars, sh_vars>>

mode_5_random_quality == RandomQualityFirst("5", RandomQuality, 50)
mode_5_requery == RandomQualityRequery("5")
mode_16_classic_of_day == RandomQualityFirst("16", Classic, 50)
mode_16_requery == RandomQualityRequery("16")

\* a stage that leaves line 512 out: the pages are walked with the strict
\* parameters whichever stage found the results
GemStage_keeps_strict_params(params, resp, otherwise) ==
    LET found == Get(resp, "results", <<>>) IN
    /\ requests' = Append(requests, Request("/discover/movie", params))
    /\ answers' = Append(answers, resp)
    /\ first' = Some(resp)
    /\ gem_results' = found
    /\ base_params' = Some(WithApiKey(GemStrict))
    /\ IF found = <<>>
       THEN /\ random_page' = random_page
            /\ otherwise
       ELSE /\ \E page \in PageChoices(resp, 30) : random_page' = page
            /\ pc' = "requery"
            /\ log' = log
    /\ UNCHANGED <<env_ok, argv, movie>>
    /\ UNCHANGED tw_vars

\* what mode 17 does with the answer `resp` to the query `params` of a stage:
\* with results it draws the page (lines 518-519), without it goes on to
\* `otherwise`
GemStage(params, resp, otherwise) ==
    LET found == Get(resp, "results", <<>>) IN
    /\ requests' = Append(requests, Request("/discover/movie", params))
    /\ answers' = Append(answers, resp)
    /\ first' = Some(resp)
    /\ gem_results' = found
    /\ base_params' = Some(WithApiKey(params))
    /\ IF found = <<>>
       THEN /\ random_page' = random_page
            /\ otherwise
       ELSE /\ \E page \in PageChoices(resp, 30) : random_page' = page
            /\ pc' = "requery"
            /\ log' = log
    /\ UNCHANGED <<env_ok, argv, movie>>
    /\ UNCHANGED tw_vars

\* mode 17 up to the answer of the strict query, lines 491-503 (and 518-519)
mode_17_hidden_gem ==
    /\ pc = "mode"
    /\ argv = Some("17")
    /\ \/ TmdbRaises("/discover/movie", GemStrict)
       \/ \E resp \in ResponsesFor(30) :
            GemStage(GemStrict, resp,
                     /\ pc' = "m17_relaxed"
                     /\ log' = Append(log, "relaxing the filter"))
    /\ UNCHANGED <<pk_vars, sh_vars>>

\* mode 17 from the relaxed query to its answer, lines 504-519
mode_17_relaxed ==
    /\ pc = "m17_relaxed"
    /\ \/ TmdbRaises("/discover/movie", GemRelaxed)
       \/ \E resp \in ResponsesFor(30) :
            GemStage(GemRelaxed, resp,
                     /\ pc' = "done"
                     /\ log' = Append(log, "still not found"))
    /\ UNCHANGED <<pk_vars, sh_vars>>

\* mode 17 from the query of the random page on, lines 520-540
mode_17_requery ==
    /\ pc = "requery"
    /\ argv = Some("17")
    /\ LET params == WithPage(base_params[1], random_page) IN
       \/ TmdbRaises("/discover/movie", params)
       \/ \E data \in Responses :
            LET all_results == OrElse(Get(data, "results", <<>>), gem_results)
            IN  /\ requests' = Append(requests, Request("/discover/movie", params))
                /\ answers' = Append(answers, Read(data, {"results"}))
                /\ \E i \in 1..Len(all_results) :
                      CallTweet("17", Some(all_results[i]))
                /\ UNCHANGED <<env_ok, argv, first, base_params, gem_results,
                               random_page>>
    /\ UNCHANGED <<pk_vars, sh_vars>>

RunStart ==
    /\ pc = "main"
    /\ log = <<>>
    /\ env_ok \in BOOLEAN
    /\ argv \in {None} \cup {Some(k) : k \in ModeKeys \cup {"7"}}
    /\ requests = <<>>
    /\ answers = <<>>
    /\ first = None
    /\ base_params = None
    /\ gem_results = <<>>
    /\ random_page = 0
    /\ movie = None

----------------------------------------------------------------------------
(* Specifications *)

PickInit == PickStart /\ ShortenIdle /\ TweetIdle /\ RunIdle

SpecPick == PickInit /\ [][CallPickBestResult]_vars

ShortenInit == ShortenStart /\ PickIdle /\ TweetIdle /\ RunIdle

ShortenNext == CallShorten \/ CallShortenAgain

SpecShorten == ShortenInit /\ [][ShortenNext]_vars

TweetInit == TweetStart /\ PickIdle /\ ShortenIdle /\ RunIdle

SpecTweet == TweetInit /\ [][tweet]_vars

Init == RunStart /\ TweetIdle /\ PickIdle /\ ShortenIdle

Next ==
    \/ main
    \/ mode_1_turkey_popular_today
    \/ mode_2_world_popular_today
    \/ mode_3_new_release_today
    \/ mode_3_trending
    \/ mode_4_week_top_rated
    \/ mode_5_random_quality
    \/ mode_5_requery
    \/ mode_8_netflix_tr_popular
    \/ mode_10_box_office_like
    \/ mode_13_trending_riser
    \/ mode_14_best_poster
    \/ mode_15_turkish_movies_popular
    \/ mode_16_classic_of_day
    \/ mode_16_requery
    \/ mode_17_hidden_gem
    \/ mode_17_relaxed
    \/ mode_17_requery
    \/ tweet

Spec == Init /\ [][Next]_vars

----------------------------------------------------------------------------
(* Properties of pick_best_result *)

MeetsThreshold(r) ==
    HasPoster(r) /\ Get(r, "vote_count", 0) >= pk_min_vote_count

\* the positions of the first non-empty tier of the input
Surviving ==
    LET all == 1..Len(pk_input)
        t1 == {i \in all : MeetsThreshold(pk_input[i])}
        t2 == {i \in all : HasPoster(pk_input[i])}
    IN  IF t1 # {} THEN t1 ELSE IF t2 # {} THEN t2 ELSE all

\* C1: pick_best_result returns None exactly when the input list is empty,
\* and otherwise returns an item of the first non-empty tier among
\* (poster and vote_count >= min_vote_count), (poster), (all items): never an
\* item without a poster or below the threshold when a poster-bearing,
\* threshold-meeting item exists.
C1_PickFromFirstNonEmptyTier ==
    pk_pc = "ret" =>
        /\ (pk_ret = None) <=> (pk_input = <<>>)
        /\ pk_ret # None =>
              /\ \E i \in Surviving : pk_input[i] = pk_ret[1]
              /\ (\E i \in 1..Len(pk_input) : MeetsThreshold(pk_input[i]))
                    => MeetsThreshold(pk_ret[1])
              /\ (\E i \in 1..Len(pk_input) : HasPoster(pk_input[i]))
                    => HasPoster(pk_ret[1])

\* a call where tier 1 is non-empty and the list also holds an item without
\* a poster whose rating is strictly higher than every tier-1 item's
C1_Witness ==
    /\ pk_pc = "ret"
    /\ pk_ret # None
    /\ MeetsThreshold(pk_ret[1])
    /\ \E i \in 1..Len(pk_input) :
          /\ ~HasPoster(pk_input[i])
          /\ Get(pk_input[i], "vote_average", 0)
                > Get(pk_ret[1], "vote_average", 0)

\* C2: the item returned maximizes (vote_average, popularity) in
\* lexicographic order over the surviving set, a missing field counting as 0,
\* and among the items that tie on both fields it is the earliest of the input.
C2_PickMaxRatingThenPopularity ==
    (pk_pc = "ret" /\ pk_ret # None) =>
        \E j \in Surviving :
            /\ pk_input[j] = pk_ret[1]
            /\ \A i \in Surviving :
                  LET a == Get(pk_input[i], "vote_average", 0)
                      b == Get(pk_input[j], "vote_average", 0)
                      p == Get(pk_input[i], "popularity", 0)
                      q == Get(pk_input[j], "popularity", 0)
                  IN  /\ a <= b
                      /\ a = b => p <= q
                      /\ (a = b /\ p = q) => j <= i

\* a call where the winner has a strictly higher rating and a strictly lower
\* popularity than another survivor, and ties with a later survivor
C2_Witness ==
    /\ pk_pc = "ret"
    /\ pk_ret # None
    /\ \E i, k \in Surviving :
          /\ Get(pk_input[i], "vote_average", 0) < Get(pk_ret[1], "vote_average", 0)
          /\ Get(pk_input[i], "popularity", 0) > Get(pk_ret[1], "popularity", 0)
          /\ pk_input[k] # pk_ret[1]
          /\ SortKey(pk_input[k]) = SortKey(pk_ret[1])

----------------------------------------------------------------------------
(* Properties of shorten *)

\* C6: shorten returns a text of length <= max_len unchanged, returns a
\* string of length <= max_len for any longer text, and is idempotent:
\* shorten(shorten(t, n), n) = shorten(t, n).
C6_ShortenBoundedIdempotent ==
    /\ sh_pc \in {"ret", "again"} =>
          /\ Len(sh_text) <= sh_max_len => sh_ret = sh_text
          /\ Len(sh_ret) <= sh_max_len
    /\ sh_pc = "again" => sh_again = sh_ret

\* a text over its budget with no space to cut at was shortened to exactly
\* max_len characters, and shortened again
C6_Witness ==
    /\ sh_pc = "again"
    /\ Len(sh_text) > sh_max_len
    /\ Len(sh_ret) = sh_max_len
    /\ sh_ret # sh_text

IsWhitespace(c) == c \in {" ", "\n"}

\* the length of the kept prefix: the output without its trailing ellipsis
KeptLen == Len(sh_ret) - 1

\* C7 as stated: for every text longer than its budget the kept prefix ends
\* at a whitespace boundary of the input (the character that follows it in
\* the input is whitespace), also when the first max_len-1 characters hold
\* no space.
C7_NeverSplitsAWord ==
    (sh_pc = "ret" /\ Len(sh_text) > sh_max_len) =>
        /\ Prefix(sh_text, KeptLen) \o <<Ellipsis>> = sh_ret
        /\ IsWhitespace(sh_text[KeptLen + 1])

\* the positions of the spaces among the first max_len-1 characters
SpacesBeforeLimit == {i \in 1..(sh_max_len - 1) : sh_text[i] = " "}

\* C7 amended: for every text longer than its budget, if the first max_len-1
\* characters hold a space the kept prefix is the input up to, and without,
\* the last such space; if they hold none the kept prefix is the first
\* max_len-1 characters, whatever follows them.
C7_CutsAtLastSpaceIfAny ==
    (sh_pc = "ret" /\ Len(sh_text) > sh_max_len) =>
        /\ Prefix(sh_text, KeptLen) \o <<Ellipsis>> = sh_ret
        /\ SpacesBeforeLimit # {} =>
              /\ sh_text[KeptLen + 1] = " "
              /\ \A i \in SpacesBeforeLimit : i <= KeptLen + 1
        /\ SpacesBeforeLimit = {} => KeptLen = sh_max_len - 1

\* a text over its budget with two spaces before the limit and a word that
\* straddles the limit was cut at the later space
C7_Witness ==
    /\ sh_pc = "ret"
    /\ Len(sh_text) > sh_max_len
    /\ Cardinality(SpacesBeforeLimit) >= 2
    /\ ~IsWhitespace(sh_text[sh_max_len - 1])
    /\ ~IsWhitespace(sh_text[sh_max_len])
    /\ sh_text[KeptLen + 1] = " "
    /\ KeptLen > 1

----------------------------------------------------------------------------
(* Properties of tweet *)

DuplicateMessages ==
    { <<"d", "u", "p", "l", "i", "c", "a", "t", "e", " ", "c", "o", "n", "t", "e", "n", "t">>,
      <<"S", "t", "a", "t", "u", "s", " ", "i", "s", " ", "a", " ",
        "D", "u", "p", "l", "i", "c", "a", "t", "e", ".">> }

\* C5: a Forbidden whose message holds "duplicate" in any case raises nothing
\* and the run completes; any other Forbidden is swallowed too and the run
\* completes; every other exception leaves tweet and ends the run; and the
\* publish call is made at most once.
C5_PublishFailureHandling ==
    /\ Len(tw_sent) <= 1
    /\ tw_outcome # None =>
          /\ Len(tw_sent) = 1
          /\ tw_pc # "call"
          /\ tw_outcome[1].kind = "ok" => pc = "done" /\ tw_pc = "returned"
          /\ tw_outcome[1].kind = "Forbidden" =>
                /\ pc = "done"
                /\ tw_pc = "returned"
                /\ log[Len(log)] = IF tw_outcome[1].msg \in DuplicateMessages
                                   THEN "duplicate, skipped"
                                   ELSE "detail"
          /\ tw_outcome[1].kind \notin {"ok", "Forbidden"} =>
                pc = "crashed" /\ tw_pc = "raised"

\* the platform refused a post as "Status is a Duplicate." and the run
\* completed
C5_Witness ==
    /\ tw_outcome # None
    /\ tw_outcome[1].kind = "Forbidden"
    /\ Contains(tw_outcome[1].msg, <<"D", "u", "p">>)
    /\ pc = "done"

----------------------------------------------------------------------------
(* Properties of a run *)

ModeKey == argv[1]

NoResults(a) == Get(a, "results", <<>>) = <<>>

Failed(a) == "error" \in DOMAIN a

\* C3: while every query of the run has returned zero items, no movie is
\* chosen and tweet is not called; a run that ends so has posted nothing.
C3_NoItemsNoPost ==
    (\A i \in 1..Len(answers) : NoResults(answers[i])) =>
        /\ movie = None
        /\ tw_pc = "idle"
        /\ tw_sent = <<>>
        /\ pc # "tweet"

\* the relaxed query of mode 17 returned zero items after the strict one did
C3_Witness ==
    /\ pc = "done"
    /\ argv = Some("17")
    /\ Len(answers) = 2
    /\ \A i \in 1..2 : ~Failed(answers[i]) /\ NoResults(answers[i])
    /\ tw_sent = <<>>

\* the queries that ask for a random page: modes 5, 16 and 17 put "page" in
\* no other query
IsRequery(i) ==
    /\ argv # None
    /\ ModeKey \in {"5", "16", "17"}
    /\ "page" \in DOMAIN requests[i].params

\* C8: in modes 5, 16 and 17 the page asked for lies in
\* [1, max(1, min(total_pages, cap))], total_pages being what the query before
\* reported (1 when missing) and cap being 50 (30 in mode 17); a total_pages
\* of 0 or less gives page 1.
C8_RandomPageInRange ==
    \A i \in 1..Len(requests) :
        IsRequery(i) =>
            LET page == requests[i].params["page"]
                total == Get(answers[i - 1], "total_pages", 1)
                cap == IF ModeKey = "17" THEN 30 ELSE 50
            IN  /\ i >= 2
                /\ page >= 1
                /\ page <= Max(1, Min(total, cap))
                /\ total <= 0 => page = 1

\* mode 5 asked for page 50 of 51, and mode 17 for page 1 of 0
C8_Witness ==
    /\ Len(requests) >= 2
    /\ IsRequery(Len(requests))
    /\ \/ /\ ModeKey = "5"
          /\ Get(answers[Len(requests) - 1], "total_pages", 1) = 51
          /\ requests[Len(requests)].params["page"] = 50
       \/ /\ ModeKey = "17"
          /\ Get(answers[Len(requests) - 1], "total_pages", 1) = 0
          /\ requests[Len(requests)].params["page"] = 1

\* the run is over and no query failed
RunOverAllAnswered ==
    /\ \/ pc = "done"
       \/ pc = "crashed" /\ tw_pc = "raised"
    /\ argv # None
    /\ \A i \in 1..Len(answers) : ~Failed(answers[i])

IsStrict(params) ==
    /\ "page" \notin DOMAIN params
    /\ "vote_count.lte" \in DOMAIN params
    /\ params["vote_count.gte"] = 100
    /\ params["vote_count.lte"] = 2000

IsRelaxed(params) ==
    /\ "page" \notin DOMAIN params
    /\ "vote_count.lte" \notin DOMAIN params
    /\ params["vote_count.gte"] = 50

Elements(list) == {list[i] : i \in 1..Len(list)}

\* C10: in mode 17 the strict query comes first; the relaxed query is made
\* only after the strict one returned zero results; the run ends without a
\* movie only after the relaxed one returned zero results too; the query for
\* the random page carries the parameters, and is bounded by the total_pages,
\* of the stage that returned results; and the movie is one of that query's
\* results or, when it has none, one of that stage's results.
C10_HiddenGemStages ==
    (argv = Some("17") /\ requests # <<>>) =>
        /\ IsStrict(requests[1].params)
        /\ \A i \in 2..Len(requests) :
              /\ IsRelaxed(requests[i].params) =>
                    i = 2 /\ ~Failed(answers[1]) /\ NoResults(answers[1])
              /\ ~IsStrict(requests[i].params)
              /\ "page" \in DOMAIN requests[i].params =>
                    /\ i = Len(requests)
                    /\ ~NoResults(answers[i - 1])
                    /\ \A j \in 1..(i - 2) : NoResults(answers[j])
                    /\ requests[i].params =
                         WithPage(requests[i - 1].params, requests[i].params["page"])
                    /\ requests[i].params["page"] \in
                         1..Max(1, Min(Get(answers[i - 1], "total_pages", 1), 30))
        /\ (pc = "done" /\ movie = None) =>
              /\ Len(requests) = 2
              /\ IsRelaxed(requests[2].params)
              /\ NoResults(answers[1]) /\ NoResults(answers[2])
        /\ movie # None =>
              /\ Len(requests) >= 2
              /\ "page" \in DOMAIN requests[Len(requests)].params
              /\ movie[1] \in
                   IF NoResults(answers[Len(answers)])
                   THEN Elements(answers[Len(answers) - 1].results)
                   ELSE Elements(answers[Len(answers)].results)

\* the strict stage found nothing, the relaxed stage found movies, page 2 of
\* it came back empty, and a movie of the relaxed stage was posted
C10_Witness ==
    /\ argv = Some("17")
    /\ pc = "done"
    /\ Len(requests) = 3
    /\ IsRelaxed(requests[2].params)
    /\ requests[3].params["page"] = 2
    /\ NoResults(answers[3])
    /\ movie # None
    /\ tw_sent # <<>>

====
